---- MODULE Spec2Model ----
(***************************************************************************)
(* Model of the scopeshare crate: ScopeShare<T> (src/src/scopeshare.rs), a *)
(* wrapper around std::cell::RefCell<T>, and SyncShare<T>                  *)
(* (src/src/syncshare.rs), a wrapper around std::sync::RwLock<T>.          *)
(*                                                                         *)
(* The two types never interact.  `component` selects which of them a      *)
(* behaviour exercises; the variables of the other one keep their initial  *)
(* values.                                                                 *)
(***************************************************************************)
EXTENDS Integers, Sequences, FiniteSets, TLC

\* ---- bounds ----
MaxCells   == 2   \* ScopeShare cells that may exist (the original and its clones)
ScopeDepth == 2   \* nesting depth of ScopeShare closure calls
ScopeGuards == 2  \* ScopeRef guards of one cell alive at once
SyncDepth  == 2   \* nesting depth of SyncShare closure calls, per thread
SyncGuards == 1   \* RwLock guards of one kind held by one thread at once
MaxVal     == 1   \* stored values are 0..MaxVal
NumThreads == 2   \* threads sharing one SyncShare
MaxCalls   == 2   \* blocking calls one thread makes in the program "calls"

Cells   == 1..MaxCells
Threads == 1..NumThreads
Vals    == 0..MaxVal

VARIABLES
    component,    \* "ScopeShare" or "SyncShare": the type under exercise
    \* ---- ScopeShare<T> (single thread) ----
    sc_alive,     \* sc_alive[c]: cell c has been constructed
    sc_flag,      \* sc_flag[c]: RefCell borrow flag; 0 unused, n > 0 readers, -1 writer
    sc_val,       \* sc_val[c]: the value inside the RefCell
    sc_frames,    \* stack of running closure calls, <<[op, cell], ...>>
    sc_refs,      \* sc_refs[c]: live ScopeRef guards of cell c
    sc_muts,      \* sc_muts[c]: live ScopeRefMut guards of cell c
    sc_panic,     \* "none", "user", or the call whose borrow failed: the panic
                  \* that is unwinding
    \* ---- SyncShare<T> (several threads) ----
    sy_readers,   \* RwLock state: number of read locks held
    sy_writer,    \* RwLock state: write lock held
    sy_poisoned,  \* RwLock poison flag
    sy_val,       \* the value inside the RwLock, as two halves <<a, b>>
    sy_wait,      \* sy_wait[t]: the blocking call thread t is inside, or "none"
    sy_frames,    \* sy_frames[t]: stack of running closure calls of thread t
    sy_rg,        \* sy_rg[t]: RwLockReadGuards held by thread t
    sy_wg,        \* sy_wg[t]: RwLockWriteGuards held by thread t
    sy_out,       \* sy_out[t]: how the last call of t (or its closure) came out:
                  \* "none" so far, "Some" / "None" of a try call, or the panic
                  \* it ended in: "PoisonError" (unwrap of a poisoned lock),
                  \* "deadlock" (refused reentrant lock), "panic" (user code)
    sy_seen,      \* sy_seen[t]: value read by the current/last read closure of t
    \* ---- client code ----
    script,       \* the client program that runs: "any" (arbitrary calls), or
                  \* the name of one of the programs below
    pc,           \* pc[t]: where thread t stands in the program
    loc           \* the program's local variables

scvars == <<sc_alive, sc_flag, sc_val, sc_frames, sc_refs, sc_muts, sc_panic>>
syvars == <<sy_readers, sy_writer, sy_poisoned, sy_val, sy_wait,
            sy_frames, sy_rg, sy_wg, sy_out, sy_seen>>
pvars == <<script, pc, loc>>
vars == <<component, scvars, syvars, pvars>>

\* ------------------------------------------------------------------------
\* Helpers
\* ------------------------------------------------------------------------
RECURSIVE SumOver(_, _)
SumOver(f, S) ==
    IF S = {} THEN 0
    ELSE LET x == CHOOSE y \in S : TRUE IN f[x] + SumOver(f, S \ {x})

Front(s) == SubSeq(s, 1, Len(s) - 1)
Top(s)   == s[Len(s)]

\* ------------------------------------------------------------------------
\* ScopeShare<T>: RefCell borrow rules
\* ------------------------------------------------------------------------
\* mutants of CanBorrow: the check dropped; shared borrows treated as exclusive
CanBorrow_Always(b) == TRUE
CanBorrow_OnlyWhenUnused(b) == b = 0

\* RefCell::borrow succeeds unless the cell is mutably borrowed.
CanBorrow(b) == b >= 0

\* mutant of CanBorrowMut: only a mutable borrow is in the way
CanBorrowMut_IgnoresShared(b) == b >= 0

\* RefCell::borrow_mut succeeds only when the cell is not borrowed at all.
CanBorrowMut(b) == b = 0

\* mutant of ReleaseShared: dropping a Ref leaves the cell borrowed
ReleaseShared_Leaks(b) == b

\* Drop of a Ref / RefMut gives the borrow back.
ReleaseShared(b) == b - 1
ReleaseExcl(b)   == b + 1

ScopeInit ==
    /\ sc_alive  = [c \in Cells |-> c = 1]
    /\ sc_flag   = [c \in Cells |-> 0]
    /\ sc_val    \in {[c \in Cells |-> IF c = 1 THEN v ELSE 0] : v \in Vals}
    /\ sc_frames = <<>>
    /\ sc_refs   = [c \in Cells |-> 0]
    /\ sc_muts   = [c \in Cells |-> 0]
    /\ sc_panic  = "none"

\* code may run only while the thread is not unwinding
ScopeRunning == component = "ScopeShare" /\ sc_panic = "none"

\* ScopeShare::with: let borrow = self.inner.borrow(); f(&borrow)
Scope_with(c) ==
    /\ ScopeRunning /\ sc_alive[c]
    /\ CanBorrow(sc_flag[c]) => Len(sc_frames) < ScopeDepth
    /\ IF CanBorrow(sc_flag[c])
         THEN /\ sc_flag'   = [sc_flag EXCEPT ![c] = @ + 1]
              /\ sc_frames' = Append(sc_frames, [op |-> "with", cell |-> c])
              /\ sc_panic'  = "none"
         ELSE /\ sc_panic'  = "with"
              /\ UNCHANGED <<sc_flag, sc_frames>>
    /\ UNCHANGED <<component, sc_alive, sc_val, sc_refs, sc_muts, syvars>>

\* ScopeShare::with_mut: let mut borrow = self.inner.borrow_mut(); f(&mut borrow)
Scope_with_mut(c) ==
    /\ ScopeRunning /\ sc_alive[c]
    /\ CanBorrowMut(sc_flag[c]) => Len(sc_frames) < ScopeDepth
    /\ IF CanBorrowMut(sc_flag[c])
         THEN /\ sc_flag'   = [sc_flag EXCEPT ![c] = -1]
              /\ sc_frames' = Append(sc_frames, [op |-> "with_mut", cell |-> c])
              /\ sc_panic'  = "none"
         ELSE /\ sc_panic'  = "with_mut"
              /\ UNCHANGED <<sc_flag, sc_frames>>
    /\ UNCHANGED <<component, sc_alive, sc_val, sc_refs, sc_muts, syvars>>

\* ScopeShare::borrow_mut: ScopeRefMut { inner: self.inner.borrow_mut() }
Scope_borrow_mut(c) ==
    /\ ScopeRunning /\ sc_alive[c]
    /\ CanBorrowMut(sc_flag[c]) => sc_muts[c] < ScopeGuards
    /\ IF CanBorrowMut(sc_flag[c])
         THEN /\ sc_flag'  = [sc_flag EXCEPT ![c] = -1]
              /\ sc_muts'  = [sc_muts EXCEPT ![c] = @ + 1]
              /\ sc_panic' = "none"
         ELSE /\ sc_panic' = "borrow_mut"
              /\ UNCHANGED <<sc_flag, sc_muts>>
    /\ UNCHANGED <<component, sc_alive, sc_val, sc_frames, sc_refs, syvars>>

\* ScopeShare::borrow: ScopeRef { inner: self.inner.borrow() }
Scope_borrow(c) ==
    /\ ScopeRunning /\ sc_alive[c]
    /\ CanBorrow(sc_flag[c]) => sc_refs[c] < ScopeGuards
    /\ IF CanBorrow(sc_flag[c])
         THEN /\ sc_flag'  = [sc_flag EXCEPT ![c] = @ + 1]
              /\ sc_refs'  = [sc_refs EXCEPT ![c] = @ + 1]
              /\ sc_panic' = "none"
         ELSE /\ sc_panic' = "borrow"
              /\ UNCHANGED <<sc_flag, sc_refs>>
    /\ UNCHANGED <<component, sc_alive, sc_val, sc_frames, sc_muts, syvars>>

\* mutant of Scope_clone: the Ref taken for the copy is never dropped
Scope_clone_KeepsBorrow(c) ==
    /\ ScopeRunning /\ sc_alive[c]
    /\ IF CanBorrow(sc_flag[c])
         THEN /\ \E d \in Cells :
                    /\ ~sc_alive[d]
                    /\ \A e \in Cells : e < d => sc_alive[e]
                    /\ sc_alive' = [sc_alive EXCEPT ![d] = TRUE]
                    /\ sc_val'   = [sc_val EXCEPT ![d] = sc_val[c]]
                    /\ sc_flag'  = [sc_flag EXCEPT ![c] = @ + 1, ![d] = 0]
              /\ sc_panic' = "none"
         ELSE /\ sc_panic' = "clone"
              /\ UNCHANGED <<sc_alive, sc_val, sc_flag>>
    /\ UNCHANGED <<component, sc_frames, sc_refs, sc_muts, syvars>>

\* Clone for ScopeShare: ScopeShare::new(self.inner.borrow().clone());
\* the temporary Ref is dropped at the end of the statement.
Scope_clone(c) ==
    /\ ScopeRunning /\ sc_alive[c]
    /\ IF CanBorrow(sc_flag[c])
         THEN /\ \E d \in Cells :
                    /\ ~sc_alive[d]
                    /\ \A e \in Cells : e < d => sc_alive[e]
                    /\ sc_alive' = [sc_alive EXCEPT ![d] = TRUE]
                    /\ sc_val'   = [sc_val EXCEPT ![d] = sc_val[c]]
                    /\ sc_flag'  = [sc_flag EXCEPT
                                      ![c] = ReleaseShared(@ + 1), ![d] = 0]
              /\ sc_panic' = "none"
         ELSE /\ sc_panic' = "clone"
              /\ UNCHANGED <<sc_alive, sc_val, sc_flag>>
    /\ UNCHANGED <<component, sc_frames, sc_refs, sc_muts, syvars>>

\* mutant of Scope_f_write: f is handed a copy of the value, not the value
Scope_f_write_OnCopy(c, v) ==
    /\ ScopeRunning
    /\ \E i \in 1..Len(sc_frames) : sc_frames[i] = [op |-> "with_mut", cell |-> c]
    /\ sc_val[c] # v
    /\ UNCHANGED <<component, scvars, syvars>>

\* the closure of a running with_mut assigns through its &mut T
Scope_f_write(c, v) ==
    /\ ScopeRunning
    /\ \E i \in 1..Len(sc_frames) : sc_frames[i] = [op |-> "with_mut", cell |-> c]
    /\ sc_val[c] # v
    /\ sc_val' = [sc_val EXCEPT ![c] = v]
    /\ UNCHANGED <<component, sc_alive, sc_flag, sc_frames, sc_refs, sc_muts,
                   sc_panic, syvars>>

\* DerefMut for ScopeRefMut: assignment through a live guard
Scope_deref_mut(c, v) ==
    /\ ScopeRunning
    /\ sc_muts[c] > 0
    /\ sc_val[c] # v
    /\ sc_val' = [sc_val EXCEPT ![c] = v]
    /\ UNCHANGED <<component, sc_alive, sc_flag, sc_frames, sc_refs, sc_muts,
                   sc_panic, syvars>>

\* flag after the local `borrow` of a with / with_mut frame is dropped
ScopeReleaseFrame(fr) ==
    [sc_flag EXCEPT ![fr.cell] =
        IF fr.op = "with" THEN ReleaseShared(@) ELSE ReleaseExcl(@)]

\* f returns: with / with_mut return f's result and drop `borrow`
Scope_return ==
    /\ ScopeRunning
    /\ Len(sc_frames) > 0
    /\ sc_frames' = Front(sc_frames)
    /\ sc_flag'   = ScopeReleaseFrame(Top(sc_frames))
    /\ UNCHANGED <<component, sc_alive, sc_val, sc_refs, sc_muts, sc_panic,
                   syvars>>

\* user code panics: a closure, or code that holds a guard
Scope_f_panic ==
    /\ ScopeRunning
    /\ Len(sc_frames) > 0 \/ \E c \in Cells : sc_refs[c] + sc_muts[c] > 0
    /\ sc_panic' = "user"
    /\ UNCHANGED <<component, sc_alive, sc_flag, sc_val, sc_frames, sc_refs,
                   sc_muts, syvars>>

\* unwinding leaves the innermost with / with_mut: its `borrow` is dropped
Scope_unwind ==
    /\ component = "ScopeShare" /\ sc_panic # "none"
    /\ Len(sc_frames) > 0
    /\ sc_frames' = Front(sc_frames)
    /\ sc_flag'   = ScopeReleaseFrame(Top(sc_frames))
    /\ UNCHANGED <<component, sc_alive, sc_val, sc_refs, sc_muts, sc_panic,
                   syvars>>

\* a ScopeRef goes out of scope (normally or during unwinding): Ref::drop
Scope_drop_ref(c) ==
    /\ component = "ScopeShare"
    /\ sc_refs[c] > 0
    /\ sc_refs' = [sc_refs EXCEPT ![c] = @ - 1]
    /\ sc_flag' = [sc_flag EXCEPT ![c] = ReleaseShared(@)]
    /\ UNCHANGED <<component, sc_alive, sc_val, sc_frames, sc_muts, sc_panic,
                   syvars>>

\* a ScopeRefMut goes out of scope (normally or during unwinding): RefMut::drop
Scope_drop_mut(c) ==
    /\ component = "ScopeShare"
    /\ sc_muts[c] > 0
    /\ sc_muts' = [sc_muts EXCEPT ![c] = @ - 1]
    /\ sc_flag' = [sc_flag EXCEPT ![c] = ReleaseExcl(@)]
    /\ UNCHANGED <<component, sc_alive, sc_val, sc_frames, sc_refs, sc_panic,
                   syvars>>

\* std::panic::catch_unwind around the failing code stops the unwinding
Scope_catch ==
    /\ component = "ScopeShare" /\ sc_panic # "none"
    /\ sc_panic' = "none"
    /\ UNCHANGED <<component, sc_alive, sc_flag, sc_val, sc_frames, sc_refs,
                   sc_muts, syvars>>

\* accesses of cell c that are outstanding: running closure calls and live guards
ScopeFrames(c, op) ==
    Cardinality({i \in 1..Len(sc_frames) : sc_frames[i] = [op |-> op, cell |-> c]})
SharedAcc(c) == ScopeFrames(c, "with") + sc_refs[c]
ExclAcc(c)   == ScopeFrames(c, "with_mut") + sc_muts[c]

ScopeNext ==
    \/ \E c \in Cells : Scope_with(c) /\ UNCHANGED pvars
    \/ \E c \in Cells : Scope_with_mut(c) /\ UNCHANGED pvars
    \/ \E c \in Cells : Scope_borrow(c) /\ UNCHANGED pvars
    \/ \E c \in Cells : Scope_borrow_mut(c) /\ UNCHANGED pvars
    \/ \E c \in Cells : Scope_clone(c) /\ UNCHANGED pvars
    \/ \E c \in Cells, v \in Vals : Scope_f_write(c, v) /\ UNCHANGED pvars
    \/ \E c \in Cells, v \in Vals : Scope_deref_mut(c, v) /\ UNCHANGED pvars
    \/ Scope_return /\ UNCHANGED pvars
    \/ Scope_f_panic /\ UNCHANGED pvars
    \/ Scope_unwind /\ UNCHANGED pvars
    \/ \E c \in Cells : Scope_drop_ref(c) /\ UNCHANGED pvars
    \/ \E c \in Cells : Scope_drop_mut(c) /\ UNCHANGED pvars
    \/ Scope_catch /\ UNCHANGED pvars

\* ------------------------------------------------------------------------
\* SyncShare<T>: std::sync::RwLock
\* ------------------------------------------------------------------------
\* mutants of ReadAvail: the writer is not looked at; readers exclude readers
ReadAvail_IgnoresWriter == TRUE
ReadAvail_Exclusive == ~sy_writer /\ sy_readers = 0

\* RwLock::read / try_read can take the lock unless a writer holds it.
ReadAvail == ~sy_writer

\* mutants of WriteAvail: readers are not looked at; a writer is not looked at
WriteAvail_IgnoresReaders == ~sy_writer
WriteAvail_IgnoresWriter == sy_readers = 0

\* RwLock::write / try_write can take the lock only when nobody holds it.
WriteAvail == ~sy_writer /\ sy_readers = 0

\* mutant of LockResultIsErr: the poison error is never raised
\* (as with unwrap_or_else(PoisonError::into_inner))
LockResultIsErr_Ignored == FALSE

\* LockResult::unwrap panics exactly when the lock is poisoned.
LockResultIsErr == sy_poisoned

\* mutant of PoisonDone: a panicking writer leaves the flag alone
PoisonDone_Never(panicking) == sy_poisoned

\* Drop of an RwLockWriteGuard marks the lock poisoned when the thread is
\* panicking; Drop of an RwLockReadGuard never touches the flag.
PoisonDone(panicking) == sy_poisoned \/ panicking

\* std leaves the priority policy open: with a writer queued, a new reader
\* may be made to queue (read) or be refused (try_read) although no writer
\* holds the lock.
WriterWaiting == \E u \in Threads : sy_wait[u] \in {"with_mut", "borrow_mut"}

SyncRunning(t) == component = "SyncShare" /\ sy_wait[t] = "none"

FramesOf(s, mode) == Cardinality({i \in 1..Len(s) : s[i] = mode})
ReadCount(t)   == FramesOf(sy_frames[t], "r") + sy_rg[t]
WriteCount(t)  == FramesOf(sy_frames[t], "w") + sy_wg[t]
HoldsRead(t)   == ReadCount(t) > 0
HoldsWrite(t)  == WriteCount(t) > 0
Torn           == sy_val[1] # sy_val[2]

\* mutant of Unwind: the calls are left but their guards are not dropped
Unwind_KeepsLock(t, k, r, w, why) ==
    /\ sy_frames' = [sy_frames EXCEPT ![t] = SubSeq(@, 1, k)]
    /\ sy_rg'     = [sy_rg EXCEPT ![t] = r]
    /\ sy_wg'     = [sy_wg EXCEPT ![t] = w]
    /\ sy_out'    = [sy_out EXCEPT ![t] = why]
    /\ UNCHANGED <<sy_readers, sy_writer, sy_poisoned, sy_seen>>

\* Thread t panics and unwinds to the place that catches the panic (k = 0 and
\* no guard kept: the whole thread).  The closure calls above depth k are
\* left and their guards dropped; of the guards returned by borrow /
\* borrow_mut, r and w stay alive (they are owned further out), the others
\* are dropped.  Every drop gives the lock back.
Unwind(t, k, r, w, why) ==
    LET kept == SubSeq(sy_frames[t], 1, k)
        relR == (FramesOf(sy_frames[t], "r") - FramesOf(kept, "r")) + (sy_rg[t] - r)
        relW == (FramesOf(sy_frames[t], "w") - FramesOf(kept, "w")) + (sy_wg[t] - w)
    IN  /\ sy_frames'   = [sy_frames EXCEPT ![t] = kept]
        /\ sy_rg'       = [sy_rg EXCEPT ![t] = r]
        /\ sy_wg'       = [sy_wg EXCEPT ![t] = w]
        /\ sy_readers'  = sy_readers - relR
        /\ sy_writer'   = IF relW > 0 THEN FALSE ELSE sy_writer
        /\ sy_poisoned' = IF relW > 0 THEN PoisonDone(TRUE) ELSE sy_poisoned
        /\ sy_seen'     = IF relR > 0 THEN [sy_seen EXCEPT ![t] = <<>>] ELSE sy_seen
        /\ sy_out'      = [sy_out EXCEPT ![t] = why]

\* a panic of thread t, caught anywhere from where it is raised to the thread's end
Panic(t, why) ==
    \E k \in 0..Len(sy_frames[t]), r \in 0..sy_rg[t], w \in 0..sy_wg[t] :
        Unwind(t, k, r, w, why)

\* The lock is taken in `mode` ("r" / "w") and the result unwrapped; the guard
\* becomes the local of a closure call (kind "closure") or is returned to the
\* caller (kind "guard").  On a poisoned lock unwrap panics, and the guard
\* inside the error is dropped at once.
Acquire(t, mode, kind) ==
    IF LockResultIsErr
      THEN Panic(t, "PoisonError")
      ELSE /\ sy_readers' = IF mode = "r" THEN sy_readers + 1 ELSE sy_readers
           /\ sy_writer'  = IF mode = "w" THEN TRUE ELSE sy_writer
           /\ sy_frames'  = IF kind = "closure"
                              THEN [sy_frames EXCEPT ![t] = Append(@, mode)]
                              ELSE sy_frames
           /\ sy_rg' = IF kind = "guard" /\ mode = "r"
                         THEN [sy_rg EXCEPT ![t] = @ + 1] ELSE sy_rg
           /\ sy_wg' = IF kind = "guard" /\ mode = "w"
                         THEN [sy_wg EXCEPT ![t] = @ + 1] ELSE sy_wg
           /\ sy_out' = [sy_out EXCEPT ![t] = "none"]
           /\ UNCHANGED <<sy_poisoned, sy_seen>>

\* the thread blocks inside RwLock::read / RwLock::write
Block(t, op) ==
    /\ sy_wait' = [sy_wait EXCEPT ![t] = op]
    /\ sy_out'  = [sy_out EXCEPT ![t] = "none"]
    /\ UNCHANGED <<sy_readers, sy_writer, sy_poisoned, sy_frames, sy_rg, sy_wg,
                   sy_seen>>

\* SyncShare::with: let guard = self.inner.read().unwrap(); f(&*guard)
\* (also SyncShare::snapshot, which is self.with(|val| val.clone()))
Sync_with(t) ==
    /\ SyncRunning(t) /\ Len(sy_frames[t]) < SyncDepth
    /\ \/ ReadAvail /\ Acquire(t, "r", "closure") /\ UNCHANGED sy_wait
       \/ (~ReadAvail \/ WriterWaiting) /\ Block(t, "with")
    /\ UNCHANGED <<component, sy_val, scvars>>

\* SyncShare::with_mut: let mut guard = self.inner.write().unwrap(); f(&mut *guard)
\* (also SyncShare::replace, which is self.with_mut(|val| *val = new))
Sync_with_mut(t) ==
    /\ SyncRunning(t) /\ Len(sy_frames[t]) < SyncDepth
    /\ \/ WriteAvail /\ Acquire(t, "w", "closure") /\ UNCHANGED sy_wait
       \/ ~WriteAvail /\ Block(t, "with_mut")
    /\ UNCHANGED <<component, sy_val, scvars>>

\* SyncShare::borrow: self.inner.read().unwrap()
Sync_borrow(t) ==
    /\ SyncRunning(t) /\ sy_rg[t] < SyncGuards
    /\ \/ ReadAvail /\ Acquire(t, "r", "guard") /\ UNCHANGED sy_wait
       \/ (~ReadAvail \/ WriterWaiting) /\ Block(t, "borrow")
    /\ UNCHANGED <<component, sy_val, scvars>>

\* SyncShare::borrow_mut: self.inner.write().unwrap()
Sync_borrow_mut(t) ==
    /\ SyncRunning(t) /\ sy_wg[t] < SyncGuards
    /\ \/ WriteAvail /\ Acquire(t, "w", "guard") /\ UNCHANGED sy_wait
       \/ ~WriteAvail /\ Block(t, "borrow_mut")
    /\ UNCHANGED <<component, sy_val, scvars>>

\* a thread blocked in read() inside with / borrow gets the lock
Sync_wake_read(t) ==
    /\ component = "SyncShare"
    /\ sy_wait[t] \in {"with", "borrow"}
    /\ ReadAvail
    /\ Acquire(t, "r", IF sy_wait[t] = "with" THEN "closure" ELSE "guard")
    /\ sy_wait' = [sy_wait EXCEPT ![t] = "none"]
    /\ UNCHANGED <<component, sy_val, scvars>>

\* mutant of Sync_wake_write: the lock lets its only reader upgrade to writer
Sync_wake_write_Upgrades(t) ==
    /\ component = "SyncShare"
    /\ sy_wait[t] \in {"with_mut", "borrow_mut"}
    /\ ~sy_writer /\ sy_readers = ReadCount(t)
    /\ Acquire(t, "w", IF sy_wait[t] = "with_mut" THEN "closure" ELSE "guard")
    /\ sy_wait' = [sy_wait EXCEPT ![t] = "none"]
    /\ UNCHANGED <<component, sy_val, scvars>>

\* a thread blocked in write() inside with_mut / borrow_mut gets the lock
Sync_wake_write(t) ==
    /\ component = "SyncShare"
    /\ sy_wait[t] \in {"with_mut", "borrow_mut"}
    /\ WriteAvail
    /\ Acquire(t, "w", IF sy_wait[t] = "with_mut" THEN "closure" ELSE "guard")
    /\ sy_wait' = [sy_wait EXCEPT ![t] = "none"]
    /\ UNCHANGED <<component, sy_val, scvars>>

\* mutant of Sync_try_with: the guard is thrown away and f never run
Sync_try_with_Refuses(t) ==
    /\ SyncRunning(t) /\ Len(sy_frames[t]) < SyncDepth
    /\ sy_out' = [sy_out EXCEPT ![t] = "None"]
    /\ UNCHANGED <<component, sy_readers, sy_writer, sy_poisoned, sy_val, sy_wait,
                   sy_frames, sy_rg, sy_wg, sy_seen, scvars>>

\* SyncShare::try_with: self.inner.try_read().ok().map(|guard| f(&*guard));
\* sy_out = "Some" records that map ran f, "None" that try_read gave an Err.
Sync_try_with(t) ==
    /\ SyncRunning(t) /\ Len(sy_frames[t]) < SyncDepth
    /\ \/ /\ ReadAvail /\ ~sy_poisoned
          /\ sy_readers' = sy_readers + 1
          /\ sy_frames'  = [sy_frames EXCEPT ![t] = Append(@, "r")]
          /\ sy_out'     = [sy_out EXCEPT ![t] = "Some"]
       \/ /\ ~ReadAvail \/ sy_poisoned \/ WriterWaiting
          /\ sy_out'     = [sy_out EXCEPT ![t] = "None"]
          /\ UNCHANGED <<sy_readers, sy_frames>>
    /\ UNCHANGED <<component, sy_writer, sy_poisoned, sy_val, sy_wait, sy_rg,
                   sy_wg, sy_seen, scvars>>

\* mutants of Sync_try_with_mut: write() in place of try_write(); the guard
\* of a poisoned lock is used all the same (PoisonError::into_inner)
Sync_try_with_mut_Blocking(t) == Sync_with_mut(t)
Sync_try_with_mut_IgnoresPoison(t) ==
    /\ SyncRunning(t) /\ Len(sy_frames[t]) < SyncDepth
    /\ \/ /\ WriteAvail
          /\ sy_writer'  = TRUE
          /\ sy_frames'  = [sy_frames EXCEPT ![t] = Append(@, "w")]
          /\ sy_out'     = [sy_out EXCEPT ![t] = "Some"]
       \/ /\ ~WriteAvail
          /\ sy_out'     = [sy_out EXCEPT ![t] = "None"]
          /\ UNCHANGED <<sy_writer, sy_frames>>
    /\ UNCHANGED <<component, sy_readers, sy_poisoned, sy_val, sy_wait, sy_rg,
                   sy_wg, sy_seen, scvars>>

\* SyncShare::try_with_mut: self.inner.try_write().ok().map(|mut guard| f(&mut *guard))
Sync_try_with_mut(t) ==
    /\ SyncRunning(t) /\ Len(sy_frames[t]) < SyncDepth
    /\ \/ /\ WriteAvail /\ ~sy_poisoned
          /\ sy_writer'  = TRUE
          /\ sy_frames'  = [sy_frames EXCEPT ![t] = Append(@, "w")]
          /\ sy_out'     = [sy_out EXCEPT ![t] = "Some"]
       \/ /\ ~WriteAvail \/ sy_poisoned
          /\ sy_out'     = [sy_out EXCEPT ![t] = "None"]
          /\ UNCHANGED <<sy_writer, sy_frames>>
    /\ UNCHANGED <<component, sy_readers, sy_poisoned, sy_val, sy_wait, sy_rg,
                   sy_wg, sy_seen, scvars>>

\* mutant of DropGuard: the guard is leaked (mem::forget), the lock stays taken
DropGuard_Leaks(t, mode) ==
    UNCHANGED <<sy_readers, sy_writer, sy_poisoned, sy_seen>>

\* Drop of the guard of a closure call that returns, or of a returned guard
\* that goes out of scope, in a thread that is not panicking
DropGuard(t, mode) ==
    /\ sy_readers'  = IF mode = "r" THEN sy_readers - 1 ELSE sy_readers
    /\ sy_writer'   = IF mode = "w" THEN FALSE ELSE sy_writer
    /\ sy_poisoned' = IF mode = "w" THEN PoisonDone(FALSE) ELSE sy_poisoned
    /\ sy_seen'     = IF mode = "r" THEN [sy_seen EXCEPT ![t] = <<>>] ELSE sy_seen

\* the closure of a read call, or the holder of a read guard, reads the value
Sync_f_read(t) ==
    /\ SyncRunning(t)
    /\ HoldsRead(t)
    /\ sy_seen[t] # sy_val
    /\ sy_seen' = [sy_seen EXCEPT ![t] = sy_val]
    /\ sy_out' = [sy_out EXCEPT ![t] = "none"]
    /\ UNCHANGED <<component, sy_readers, sy_writer, sy_poisoned, sy_val, sy_wait,
                   sy_frames, sy_rg, sy_wg, scvars>>

\* the closure of a write call, or the holder of a write guard, starts to
\* overwrite the value: the first half is written
Sync_f_write_begin(t, v) ==
    /\ SyncRunning(t)
    /\ HoldsWrite(t)
    /\ ~Torn /\ v # sy_val[1]
    /\ sy_val' = <<v, sy_val[2]>>
    /\ sy_out' = [sy_out EXCEPT ![t] = "none"]
    /\ UNCHANGED <<component, sy_readers, sy_writer, sy_poisoned, sy_wait,
                   sy_frames, sy_rg, sy_wg, sy_seen, scvars>>

\* ... and completes it: the second half is written
Sync_f_write_end(t) ==
    /\ SyncRunning(t)
    /\ HoldsWrite(t)
    /\ Torn
    /\ sy_val' = <<sy_val[1], sy_val[1]>>
    /\ sy_out' = [sy_out EXCEPT ![t] = "none"]
    /\ UNCHANGED <<component, sy_readers, sy_writer, sy_poisoned, sy_wait,
                   sy_frames, sy_rg, sy_wg, sy_seen, scvars>>

\* f returns (a writer's f after its write is complete): `guard` is dropped
Sync_return(t) ==
    /\ SyncRunning(t)
    /\ Len(sy_frames[t]) > 0
    /\ Top(sy_frames[t]) = "w" => ~Torn
    /\ sy_frames' = [sy_frames EXCEPT ![t] = Front(@)]
    /\ DropGuard(t, Top(sy_frames[t]))
    /\ sy_out' = [sy_out EXCEPT ![t] = "none"]
    /\ UNCHANGED <<component, sy_val, sy_wait, sy_rg, sy_wg, scvars>>

\* an RwLockReadGuard returned by borrow goes out of scope
Sync_drop_read(t) ==
    /\ SyncRunning(t)
    /\ sy_rg[t] > 0
    /\ sy_rg' = [sy_rg EXCEPT ![t] = @ - 1]
    /\ DropGuard(t, "r")
    /\ sy_out' = [sy_out EXCEPT ![t] = "none"]
    /\ UNCHANGED <<component, sy_val, sy_wait, sy_frames, sy_wg, scvars>>

\* an RwLockWriteGuard returned by borrow_mut goes out of scope
Sync_drop_write(t) ==
    /\ SyncRunning(t)
    /\ sy_wg[t] > 0
    /\ ~Torn
    /\ sy_wg' = [sy_wg EXCEPT ![t] = @ - 1]
    /\ DropGuard(t, "w")
    /\ sy_out' = [sy_out EXCEPT ![t] = "none"]
    /\ UNCHANGED <<component, sy_val, sy_wait, sy_frames, sy_rg, scvars>>

\* user code of thread t (a closure, or code holding a guard) panics
Sync_f_panic(t) ==
    /\ SyncRunning(t)
    /\ HoldsRead(t) \/ HoldsWrite(t)
    /\ Panic(t, "panic")
    /\ UNCHANGED <<component, sy_val, sy_wait, scvars>>

\* RwLock::read / write "might panic when called if the lock is already held
\* by the current thread": the blocked reentrant call panics instead of hanging
Sync_reentrant_panic(t) ==
    /\ component = "SyncShare" /\ sy_wait[t] # "none"
    /\ HoldsRead(t) \/ HoldsWrite(t)
    /\ sy_wait' = [sy_wait EXCEPT ![t] = "none"]
    /\ Panic(t, "deadlock")
    /\ UNCHANGED <<component, sy_val, scvars>>

\* accesses held over all threads
TotalRead  == SumOver([t \in Threads |-> ReadCount(t)], Threads)
TotalWrite == SumOver([t \in Threads |-> WriteCount(t)], Threads)

SyncNext ==
    \/ \E t \in Threads : Sync_with(t) /\ UNCHANGED pvars
    \/ \E t \in Threads : Sync_with_mut(t) /\ UNCHANGED pvars
    \/ \E t \in Threads : Sync_try_with(t) /\ UNCHANGED pvars
    \/ \E t \in Threads : Sync_try_with_mut(t) /\ UNCHANGED pvars
    \/ \E t \in Threads : Sync_borrow(t) /\ UNCHANGED pvars
    \/ \E t \in Threads : Sync_borrow_mut(t) /\ UNCHANGED pvars
    \/ \E t \in Threads : Sync_wake_read(t) /\ UNCHANGED pvars
    \/ \E t \in Threads : Sync_wake_write(t) /\ UNCHANGED pvars
    \/ \E t \in Threads : Sync_f_read(t) /\ UNCHANGED pvars
    \/ \E t \in Threads, v \in Vals : Sync_f_write_begin(t, v) /\ UNCHANGED pvars
    \/ \E t \in Threads : Sync_f_write_end(t) /\ UNCHANGED pvars
    \/ \E t \in Threads : Sync_return(t) /\ UNCHANGED pvars
    \/ \E t \in Threads : Sync_drop_read(t) /\ UNCHANGED pvars
    \/ \E t \in Threads : Sync_drop_write(t) /\ UNCHANGED pvars
    \/ \E t \in Threads : Sync_f_panic(t) /\ UNCHANGED pvars
    \/ \E t \in Threads : Sync_reentrant_panic(t) /\ UNCHANGED pvars

\* arbitrary client code keeps nothing the model looks at
NoLocals == [v0 |-> 0]

SyncInit ==
    /\ sy_readers  = 0
    /\ sy_writer   = FALSE
    /\ sy_poisoned = FALSE
    /\ sy_val      \in {<<v, v>> : v \in Vals}
    /\ sy_wait     = [t \in Threads |-> "none"]
    /\ sy_frames   = [t \in Threads |-> <<>>]
    /\ sy_rg       = [t \in Threads |-> 0]
    /\ sy_wg       = [t \in Threads |-> 0]
    /\ sy_out      = [t \in Threads |-> "none"]
    /\ sy_seen     = [t \in Threads |-> <<>>]

Init ==
    /\ component \in {"ScopeShare", "SyncShare"}
    /\ ScopeInit
    /\ SyncInit
    /\ component = "ScopeShare" => sy_val = <<0, 0>>
    /\ component = "SyncShare" => sc_val = [c \in Cells |-> 0]
    /\ script = "any"
    /\ pc = [t \in Threads |-> "run"]
    /\ loc = NoLocals

Next == ScopeNext \/ SyncNext

Spec == Init /\ [][Next]_vars

\* ------------------------------------------------------------------------
\* Program "calls": every thread makes at most MaxCalls blocking calls of
\* with, with_mut, borrow and borrow_mut on one SyncShare, none of them while
\* it holds access itself; closures return and guards are dropped, nothing
\* panics.  pc[t] is "woken" while t runs a call that had to wait.
\* ------------------------------------------------------------------------
CallsInit ==
    /\ component = "SyncShare"
    /\ ScopeInit /\ sc_val = [c \in Cells |-> 0]
    /\ SyncInit /\ sy_val = <<0, 0>>
    /\ script = "calls"
    /\ pc = [t \in Threads |-> "run"]
    /\ loc = [left |-> [t \in Threads |-> MaxCalls]]

\* thread t may start a call: it has calls left and holds no access
CanCall(t) ==
    /\ script = "calls"
    /\ loc.left[t] > 0
    /\ ~HoldsRead(t) /\ ~HoldsWrite(t)

Called(t) ==
    /\ loc' = [loc EXCEPT !.left[t] = @ - 1]
    /\ UNCHANGED <<script, pc>>

Calls_with(t)       == CanCall(t) /\ Sync_with(t) /\ Called(t)
Calls_with_mut(t)   == CanCall(t) /\ Sync_with_mut(t) /\ Called(t)
Calls_borrow(t)     == CanCall(t) /\ Sync_borrow(t) /\ Called(t)
Calls_borrow_mut(t) == CanCall(t) /\ Sync_borrow_mut(t) /\ Called(t)

\* the lock comes free and is handed to the waiting thread t
Calls_wake_read(t) ==
    /\ Sync_wake_read(t)
    /\ pc' = [pc EXCEPT ![t] = "woken"]
    /\ UNCHANGED <<script, loc>>
Calls_wake_write(t) ==
    /\ Sync_wake_write(t)
    /\ pc' = [pc EXCEPT ![t] = "woken"]
    /\ UNCHANGED <<script, loc>>

\* the closure returns / the guard goes out of scope: the call is complete
Calls_return(t) ==
    /\ Sync_return(t)
    /\ pc' = [pc EXCEPT ![t] = "run"]
    /\ UNCHANGED <<script, loc>>
Calls_drop_read(t) ==
    /\ Sync_drop_read(t)
    /\ pc' = [pc EXCEPT ![t] = "run"]
    /\ UNCHANGED <<script, loc>>
Calls_drop_write(t) ==
    /\ Sync_drop_write(t)
    /\ pc' = [pc EXCEPT ![t] = "run"]
    /\ UNCHANGED <<script, loc>>

CallsNext ==
    \/ \E t \in Threads : Calls_with(t)
    \/ \E t \in Threads : Calls_with_mut(t)
    \/ \E t \in Threads : Calls_borrow(t)
    \/ \E t \in Threads : Calls_borrow_mut(t)
    \/ \E t \in Threads : Calls_wake_read(t)
    \/ \E t \in Threads : Calls_wake_write(t)
    \/ \E t \in Threads : Calls_return(t)
    \/ \E t \in Threads : Calls_drop_read(t)
    \/ \E t \in Threads : Calls_drop_write(t)

\* fair scheduling: a thread that can go on does; the lock wakes its waiters
CallsFair ==
    \A t \in Threads :
        /\ WF_vars(Calls_wake_read(t))
        /\ WF_vars(Calls_wake_write(t))
        /\ WF_vars(Calls_return(t))
        /\ WF_vars(Calls_drop_read(t))
        /\ WF_vars(Calls_drop_write(t))

CallsSpec == CallsInit /\ [][CallsNext]_vars /\ CallsFair

\* ------------------------------------------------------------------------
\* Programs that keep the results of their calls, as tests/basic.rs and
\* examples/basic.rs do.  A program is a list of statements run by thread 1
\* on cell 1 ("counter": by every thread); a statement calls with or with_mut
\* with a closure and stores what the call returns.
\*   readback:  r = c.with(|x| x.clone())
\*   mutate:    m = c.with_mut(|x| { *x = g(*x); *x });  r = c.with(|x| x.clone())
\*   snapshot:  s1 = c.snapshot();  c.replace(n);  s2 = c.snapshot()
\*              (other threads read meanwhile)
\*   counter:   c.with_mut(|v| *v += 1), once in every thread
\* pc[t] = [i |-> statement, at |-> "call" | "wait" | "body" | "write" | "ret"].
\* ------------------------------------------------------------------------
Results == {"m", "r", "s1", "s2"}

\* what the closures compute
Identity  == [v \in 0..(MaxVal + NumThreads) |-> v]
\* mutant of Const: replace drops the new value and keeps the old one
Const_KeepsOld(n) == [v \in 0..(MaxVal + NumThreads) |-> v]
Const(n)  == [v \in 0..(MaxVal + NumThreads) |-> n]
Increment == [v \in 0..(MaxVal + NumThreads) |-> v + 1]

Stmt(kind, fn, target) == [kind |-> kind, fn |-> fn, target |-> target]

Stmts ==
    CASE script = "readback" -> << Stmt("with", Identity, "r") >>
      [] script = "mutate"   -> << Stmt("with_mut", loc.g, "m"),
                                   Stmt("with", Identity, "r") >>
      [] script = "snapshot" -> << Stmt("with", Identity, "s1"),
                                   Stmt("with_mut", Const(loc.n), "none"),
                                   Stmt("with", Identity, "s2") >>
      [] script = "counter"  -> << Stmt("with_mut", Increment, "none") >>
      [] OTHER               -> << >>

\* the value inside the cell, and value v as it lies in the cell (the RwLock'd
\* value is modelled as two halves)
Stored   == IF component = "ScopeShare" THEN <<sc_val[1]>> ELSE sy_val
Whole(v) == IF component = "ScopeShare" THEN <<v>> ELSE <<v, v>>

ProgInit ==
    /\ component \in {"ScopeShare", "SyncShare"}
    /\ script \in {"readback", "mutate", "snapshot", "counter"}
    /\ script \in {"snapshot", "counter"} => component = "SyncShare"
    /\ ScopeInit
    /\ SyncInit
    /\ component = "ScopeShare" => sy_val = <<0, 0>>
    /\ component = "SyncShare" => sc_val = [c \in Cells |-> 0]
    /\ \E g \in [Vals -> Vals], n \in Vals :
          /\ script # "mutate" => g = [v \in Vals |-> v]
          /\ script # "snapshot" => n = 0
          /\ loc = [v0  |-> Stored[1], g |-> g, n |-> n,
                    res |-> [x \in Results |-> <<>>],
                    tmp |-> [t \in Threads |-> <<>>]]
    /\ pc = [t \in Threads |->
               IF script = "counter" \/ t = 1
                 THEN [i |-> 1, at |-> "call"]
                 ELSE [i |-> Len(Stmts) + 1, at |-> "call"]]

Done(t)    == pc[t].i > Len(Stmts)
Current(t) == Stmts[pc[t].i]
At(t, kind, at) == ~Done(t) /\ Current(t).kind = kind /\ pc[t].at = at
Goto(t, at) ==
    /\ pc' = [pc EXCEPT ![t].at = at]
    /\ UNCHANGED script

\* where a call that was just made leaves its thread: waiting for the lock,
\* inside the closure, or with a panic instead of a closure call
AfterCall(t) ==
    IF component = "SyncShare" /\ sy_wait'[t] # "none" THEN "wait"
    ELSE IF component = "ScopeShare" /\ Len(sc_frames') > Len(sc_frames) THEN "body"
    ELSE IF component = "SyncShare" /\ Len(sy_frames'[t]) > Len(sy_frames[t]) THEN "body"
    ELSE "failed"

\* c.with(f) / c.snapshot() is called
Prog_call_with(t) ==
    /\ At(t, "with", "call")
    /\ IF component = "ScopeShare" THEN Scope_with(1) ELSE Sync_with(t)
    /\ pc' = [pc EXCEPT ![t].at = AfterCall(t)]
    /\ UNCHANGED <<script, loc>>

\* c.with_mut(f) / c.replace(n) is called
Prog_call_with_mut(t) ==
    /\ At(t, "with_mut", "call")
    /\ IF component = "ScopeShare" THEN Scope_with_mut(1) ELSE Sync_with_mut(t)
    /\ pc' = [pc EXCEPT ![t].at = AfterCall(t)]
    /\ UNCHANGED <<script, loc>>

\* the blocked call gets the lock
Prog_wake(t) ==
    /\ ~Done(t) /\ pc[t].at = "wait"
    /\ Sync_wake_read(t) \/ Sync_wake_write(t)
    /\ pc' = [pc EXCEPT ![t].at = AfterCall(t)]
    /\ UNCHANGED <<script, loc>>

\* mutant of Prog_f_clone: the closure builds a fresh value (T::default())
Prog_f_clone_Default(t) ==
    /\ At(t, "with", "body")
    /\ IF component = "ScopeShare" THEN ScopeRunning ELSE SyncRunning(t)
    /\ loc' = [loc EXCEPT !.tmp[t] = Whole(0)]
    /\ Goto(t, "ret")
    /\ UNCHANGED <<component, scvars, syvars>>

\* f of with: |x| x.clone()
Prog_f_clone(t) ==
    /\ At(t, "with", "body")
    /\ IF component = "ScopeShare"
         THEN /\ ScopeRunning
              /\ loc' = [loc EXCEPT !.tmp[t] = Stored]
              /\ UNCHANGED <<component, scvars, syvars>>
         ELSE /\ Sync_f_read(t)
              /\ loc' = [loc EXCEPT !.tmp[t] = sy_seen'[t]]
    /\ Goto(t, "ret")

\* f of with_mut reads *x ...
Prog_f_load(t) ==
    /\ At(t, "with_mut", "body")
    /\ IF component = "ScopeShare" THEN ScopeRunning ELSE SyncRunning(t)
    /\ loc' = [loc EXCEPT !.tmp[t] = Stored]
    /\ Goto(t, "modify")
    /\ UNCHANGED <<component, scvars, syvars>>

\* ... and assigns the new value to *x (nothing to write when it is the old
\* one); the new value is also f's result
Prog_f_store(t) ==
    /\ At(t, "with_mut", "modify")
    /\ LET new == Current(t).fn[loc.tmp[t][1]]
       IN  /\ loc' = [loc EXCEPT !.tmp[t] = Whole(new)]
           /\ IF new = Stored[1]
                THEN /\ IF component = "ScopeShare" THEN ScopeRunning
                                                    ELSE SyncRunning(t) /\ ~Torn
                     /\ Goto(t, "ret")
                     /\ UNCHANGED <<component, scvars, syvars>>
                ELSE IF component = "ScopeShare"
                       THEN Scope_f_write(1, new) /\ Goto(t, "ret")
                       ELSE Sync_f_write_begin(t, new) /\ Goto(t, "write")

\* the assignment to the RwLock'd value completes
Prog_f_store_end(t) ==
    /\ ~Done(t) /\ pc[t].at = "write"
    /\ Sync_f_write_end(t)
    /\ Goto(t, "ret")
    /\ UNCHANGED loc

\* f returns; with / with_mut drop the guard and return f's result, which
\* the program stores
Prog_return(t) ==
    /\ ~Done(t) /\ pc[t].at = "ret"
    /\ IF component = "ScopeShare" THEN Scope_return ELSE Sync_return(t)
    /\ loc' = [loc EXCEPT
                 !.res = IF Current(t).target \in Results
                           THEN [@ EXCEPT ![Current(t).target] = loc.tmp[t]]
                           ELSE @,
                 !.tmp[t] = <<>>]
    /\ pc' = [pc EXCEPT ![t] = [i |-> @.i + 1, at |-> "call"]]
    /\ UNCHANGED script

\* "snapshot": the other threads read the cell with with(f) all along
Snap_reader(t) ==
    /\ script = "snapshot" /\ t # 1
    /\ \/ Sync_with(t) \/ Sync_wake_read(t)
       \/ Sync_f_read(t) \/ Sync_return(t)
    /\ UNCHANGED pvars

ProgNext ==
    \/ \E t \in Threads : Prog_call_with(t)
    \/ \E t \in Threads : Prog_call_with_mut(t)
    \/ \E t \in Threads : Prog_wake(t)
    \/ \E t \in Threads : Prog_f_clone(t)
    \/ \E t \in Threads : Prog_f_load(t)
    \/ \E t \in Threads : Prog_f_store(t)
    \/ \E t \in Threads : Prog_f_store_end(t)
    \/ \E t \in Threads : Prog_return(t)
    \/ \E t \in Threads : Snap_reader(t)

ProgSpec == ProgInit /\ [][ProgNext]_vars

\* ------------------------------------------------------------------------
\* Properties
\* ------------------------------------------------------------------------

\* C1: SyncShare mutual exclusion.  In every reachable state, over all
\* threads and all of with, with_mut, try_with, try_with_mut, snapshot,
\* replace, borrow and borrow_mut, either nobody holds access, or one or more
\* read accesses are held and no write access, or exactly one write access
\* is held and no read access.
C1_MutualExclusion ==
    \/ TotalWrite = 0
    \/ TotalWrite = 1 /\ TotalRead = 0

\* two threads read at once
C1_Witness ==
    /\ \A t \in Threads : HoldsRead(t)
    /\ TotalRead >= NumThreads

\* C2: ScopeShare borrow state.  After any sequence of with, with_mut,
\* borrow, borrow_mut, clone, closure returns, panics and guard drops, the
\* outstanding accesses of each cell are none, n >= 1 shared ones, or exactly
\* one exclusive one: an exclusive access never coexists with another access.
C2_BorrowState ==
    \A c \in Cells :
        \/ ExclAcc(c) = 0
        \/ ExclAcc(c) = 1 /\ SharedAcc(c) = 0

\* a closure call and a guard share cell 1 while with_mut runs on its clone
C2_Witness ==
    /\ ScopeFrames(1, "with") >= 1 /\ sc_refs[1] >= 1
    /\ ExclAcc(2) = 1

\* C3: on a ScopeShare, with_mut and borrow_mut called while any access of
\* the same cell, shared or exclusive, is outstanding panic: no closure call
\* starts, no guard is handed out and the value stays as it is.
C3_ExclusiveFailsWhenBorrowed ==
    [][\A c \in Cells :
          (Scope_with_mut(c) \/ Scope_borrow_mut(c)) /\ SharedAcc(c) + ExclAcc(c) > 0
          => /\ sc_panic' \in {"with_mut", "borrow_mut"}
             /\ sc_frames' = sc_frames
             /\ sc_muts' = sc_muts
             /\ sc_val' = sc_val]_vars

\* with_mut has just failed on the only cell while a borrow() guard of it is alive
C3_Witness ==
    /\ sc_panic = "with_mut"
    /\ ~sc_alive[2]
    /\ sc_refs[1] >= 1 /\ sc_frames = <<>> /\ sc_muts[1] = 0

\* C4: on a ScopeShare, with and borrow panic when an exclusive access of
\* the same cell is outstanding, and succeed when none is, however many
\* shared accesses are outstanding.
C4_SharedRule ==
    [][\A c \in Cells :
          /\ Scope_with(c) =>
                IF ExclAcc(c) > 0
                  THEN sc_panic' = "with" /\ sc_frames' = sc_frames
                  ELSE /\ sc_panic' = "none"
                       /\ sc_frames' = Append(sc_frames, [op |-> "with", cell |-> c])
          /\ Scope_borrow(c) =>
                IF ExclAcc(c) > 0
                  THEN sc_panic' = "borrow" /\ sc_refs' = sc_refs
                  ELSE /\ sc_panic' = "none"
                       /\ sc_refs' = [sc_refs EXCEPT ![c] = @ + 1]]_vars

\* with nested in with on one cell, while borrow() guards of it are alive
C4_Witness ==
    /\ ScopeFrames(1, "with") = ScopeDepth
    /\ sc_refs[1] = ScopeGuards
    /\ sc_panic = "none"

\* C5: SyncShare write serialization.  While a writer (with_mut, replace,
\* try_with_mut closure or borrow_mut guard holder) is between its first and
\* its last write, no thread holds read access, and no value a reader has
\* read is a partially written one.
C5_WriteSerialization ==
    \A t \in Threads :
        /\ HoldsRead(t) => ~Torn
        /\ sy_seen[t] # <<>> => sy_seen[t][1] = sy_seen[t][2]

\* a writer is in the middle of its write while another thread waits in with
C5_Witness ==
    \E t, u \in Threads :
        /\ t # u
        /\ HoldsWrite(t) /\ Torn
        /\ sy_wait[u] = "with"

\* C6: SyncShare concurrent reads.  A with call made while no writer holds
\* or awaits the lock (and the lock is not poisoned) gets read access in that
\* step, however many readers hold the lock; and what a reader has read is
\* the stored value for as long as it holds its access.
C6_ConcurrentReads ==
    /\ [](\A t \in Threads :
            HoldsRead(t) /\ sy_seen[t] # <<>> => sy_seen[t] = sy_val)
    /\ [][\A t \in Threads :
            Sync_with(t) /\ ~sy_writer /\ ~WriterWaiting /\ ~sy_poisoned
            => /\ sy_frames'[t] = Append(sy_frames[t], "r")
               /\ sy_readers' = sy_readers + 1
               /\ sy_wait'[t] = "none"
               /\ sy_val' = sy_val]_vars

\* every thread runs a with closure at once and has read the same stored value
C6_Witness ==
    \A t \in Threads :
        /\ FramesOf(sy_frames[t], "r") >= 1
        /\ sy_seen[t] = sy_val

\* C7 as claimed: the poison flag is set whenever a thread that holds the
\* lock, in read mode or in write mode, panics and unwinds out of its access.
C7_PoisonOnAnyHolderPanic ==
    [][\A t \in Threads :
          /\ Sync_f_panic(t) \/ Sync_reentrant_panic(t)
          /\ (ReadCount(t))' < ReadCount(t) \/ (WriteCount(t))' < WriteCount(t)
          => sy_poisoned']_vars

\* C7 as amended: the poison flag is set whenever a thread that holds the
\* lock in write mode (with_mut, try_with_mut, replace, borrow_mut) panics
\* and unwinds out of that access; a panic that unwinds only read accesses
\* (with, try_with, snapshot, borrow) leaves the flag as it was.
C7_PoisonOnWriterPanic ==
    [][\A t \in Threads :
          Sync_f_panic(t) \/ Sync_reentrant_panic(t)
          => /\ (WriteCount(t))' < WriteCount(t) => sy_poisoned'
             /\ (WriteCount(t))' = WriteCount(t) => sy_poisoned' = sy_poisoned]_vars

\* a writer has panicked in the middle of its write: lock released and poisoned
C7_Witness ==
    /\ sy_poisoned /\ Torn
    /\ TotalWrite = 0 /\ ~sy_writer
    /\ \E t \in Threads : sy_out[t] = "panic"

\* C8: SyncShare poisoning is one-way and fatal for the blocking accessors.
\* No step clears the poison flag; and a with, with_mut, snapshot, replace,
\* borrow or borrow_mut call that gets past the lock of a poisoned cell
\* panics: it starts no closure call and returns no guard.
C8_PoisonOneWayAndFatal ==
    [][/\ sy_poisoned => sy_poisoned'
       /\ \A t \in Threads :
             /\ sy_poisoned
             /\ \/ Sync_with(t) \/ Sync_with_mut(t)
                \/ Sync_borrow(t) \/ Sync_borrow_mut(t)
                \/ Sync_wake_read(t) \/ Sync_wake_write(t)
             /\ sy_wait'[t] = "none"
             => /\ sy_out'[t] = "PoisonError"
                /\ Len(sy_frames'[t]) <= Len(sy_frames[t])
                /\ sy_rg'[t] <= sy_rg[t]
                /\ sy_wg'[t] <= sy_wg[t]
                /\ sy_val' = sy_val]_vars

\* a blocking call has panicked on the poisoned lock, which nobody holds
C8_Witness ==
    /\ sy_poisoned
    /\ TotalRead = 0 /\ TotalWrite = 0
    /\ \E t \in Threads : sy_out[t] = "PoisonError"

\* C9: try_with_mut does not block.  Called while another thread holds
\* write access (a running with_mut closure or a borrow_mut guard), it returns
\* None in that step: the caller is not left waiting and its closure is not run.
C9_TryWithMutNonBlocking ==
    [][\A t \in Threads :
          Sync_try_with_mut(t) /\ (\E u \in Threads \ {t} : HoldsWrite(u))
          => /\ sy_out'[t] = "None"
             /\ sy_wait'[t] = "none"
             /\ sy_frames'[t] = sy_frames[t]
             /\ sy_val' = sy_val]_vars

\* a try call has returned None while another thread is in the middle of a write
C9_Witness ==
    \E t, u \in Threads :
        /\ t # u
        /\ HoldsWrite(u) /\ Torn /\ ~sy_poisoned
        /\ sy_out[t] = "None" /\ sy_wait[t] = "none"

\* C10: guards are released on every exit path.  The RefCell borrow flag
\* and the RwLock state always count exactly the accesses that are still
\* outstanding (running closure calls and live guards): an access that ended
\* by a normal return, by a guard drop or by unwinding from a panic is no
\* longer counted, so the holder count is back to what it was before it.
C10_GuardRelease ==
    /\ \A c \in Cells :
          sc_flag[c] = IF ExclAcc(c) > 0 THEN -ExclAcc(c) ELSE SharedAcc(c)
    /\ sy_readers = TotalRead
    /\ sy_writer = (TotalWrite > 0)

\* a writer has panicked and unwound: the lock is poisoned, and free again
C10_Witness ==
    /\ sy_poisoned
    /\ ~sy_writer /\ sy_readers = 0
    /\ \A t \in Threads : sy_frames[t] = <<>> /\ sy_rg[t] = 0 /\ sy_wg[t] = 0
\* C11: blocking acquisition and progress on SyncShare.  with, with_mut,
\* borrow and borrow_mut never come back with a failure because the lock is
\* busy: the call takes the lock or the caller waits, and it waits whenever an
\* incompatible holder exists.  When every thread makes finitely many
\* non-reentrant calls, closures return and guards are dropped, then under
\* fair scheduling every waiting call gets the lock and every access ends.
C11_BlockingProgress ==
    /\ [][\A t \in Threads :
            /\ \/ Calls_with(t) \/ Calls_with_mut(t)
               \/ Calls_borrow(t) \/ Calls_borrow_mut(t)
               => /\ sy_out'[t] = "none"
                  /\ \/ sy_wait'[t] # "none"
                     \/ (ReadCount(t) + WriteCount(t))' = 1
            /\ (Calls_with(t) \/ Calls_borrow(t)) /\ sy_writer
               => sy_wait'[t] # "none" /\ (ReadCount(t))' = 0
            /\ (Calls_with_mut(t) \/ Calls_borrow_mut(t))
                  /\ (sy_writer \/ sy_readers > 0)
               => sy_wait'[t] # "none" /\ (WriteCount(t))' = 0]_vars
    /\ \A t \in Threads :
          /\ (sy_wait[t] # "none")
                ~> (sy_wait[t] = "none" /\ (HoldsRead(t) \/ HoldsWrite(t)))
          /\ (HoldsRead(t) \/ HoldsWrite(t))
                ~> (sy_wait[t] = "none" /\ ~HoldsRead(t) /\ ~HoldsWrite(t))

\* a with_mut or borrow_mut call that had to wait now holds the lock, while
\* another thread waits for it in turn
C11_Witness ==
    \E t, u \in Threads :
        /\ t # u
        /\ pc[t] = "woken" /\ HoldsWrite(t)
        /\ sy_wait[u] # "none"
\* C12: read-back identity.  On a cell just created by new(v), ScopeShare
\* or SyncShare, with(|x| x.clone()) returns v, and the stored value is v
\* throughout and after the call.
C12_ReadBack ==
    script = "readback" =>
        /\ Stored = Whole(loc.v0)
        /\ Done(1) => loc.res["r"] = Whole(loc.v0)

\* with has returned the largest value from a SyncShare created with it
C12_Witness ==
    /\ script = "readback" /\ component = "SyncShare"
    /\ Done(1) /\ loc.v0 = MaxVal
    /\ loc.res["r"] = <<MaxVal, MaxVal>>

\* C13: in a sequential execution, on a cell holding v, with_mut(g) followed
\* by with(|x| x.clone()) returns g(v): g is applied exactly once, and
\* with_mut returns the result g computed.
C13_MutateOnce ==
    script = "mutate" /\ Done(1) =>
        /\ loc.res["r"] = Whole(loc.g[loc.v0])
        /\ loc.res["m"] = Whole(loc.g[loc.v0])
        /\ Stored = Whole(loc.g[loc.v0])

\* the program has run on a ScopeShare with a g for which v, g(v) and g(g(v))
\* are not all the same
C13_Witness ==
    /\ script = "mutate" /\ component = "ScopeShare"
    /\ Done(1)
    /\ loc.g[loc.v0] # loc.v0
    /\ loc.g[loc.g[loc.v0]] # loc.g[loc.v0]
    /\ loc.res["r"] = <<loc.g[loc.v0]>>

\* C14: snapshot value semantics on SyncShare.  In s1 = snapshot();
\* replace(n); s2 = snapshot() on a cell holding v, with no other writer, s1
\* is v, s2 is n, and s1 is still v after the replace and ever after.
C14_SnapshotValue ==
    script = "snapshot" =>
        /\ loc.res["s1"] # <<>> => loc.res["s1"] = Whole(loc.v0)
        /\ loc.res["s2"] # <<>> => loc.res["s2"] = Whole(loc.n)
        /\ Done(1) => /\ loc.res["s1"] # <<>> /\ loc.res["s2"] # <<>>
                      /\ Stored = Whole(loc.n)

\* the program has run with n different from v, while another thread reads
C14_Witness ==
    /\ script = "snapshot" /\ Done(1)
    /\ loc.n # loc.v0
    /\ loc.res["s1"] = Whole(loc.v0) /\ loc.res["s2"] = Whole(loc.n)
    /\ \E t \in Threads : t # 1 /\ HoldsRead(t) /\ sy_seen[t] = Whole(loc.n)
\* C17: no lost update.  When every one of the NumThreads threads performs
\* one with_mut(|v| *v += 1) on a SyncShare holding k and nothing panics, the
\* stored value is k + NumThreads once all calls are complete, whatever the
\* interleaving; and from the moment a closure has read the value until its
\* with_mut returns, the value is the one that closure read or wrote.
C17_NoLostUpdate ==
    script = "counter" =>
        /\ (\A t \in Threads : Done(t)) => sy_val = Whole(loc.v0 + NumThreads)
        /\ \A t \in Threads :
              ~Done(t) =>
                 /\ pc[t].at \in {"modify", "ret"} => sy_val = loc.tmp[t]
                 /\ pc[t].at = "write" => sy_val = <<loc.tmp[t][1], loc.tmp[t][1] - 1>>

\* all threads are done and the counter went from MaxVal to MaxVal + NumThreads
C17_Witness ==
    /\ script = "counter"
    /\ \A t \in Threads : Done(t)
    /\ loc.v0 = MaxVal
    /\ sy_val = <<MaxVal + NumThreads, MaxVal + NumThreads>>
\* C15 as claimed: try_with and try_with_mut called on a SyncShare that
\* nobody holds and that is not poisoned run f once and return Some.
C15_TrySucceedsWhenUnlocked ==
    [][\A t \in Threads :
          /\ Sync_try_with(t) \/ Sync_try_with_mut(t)
          /\ ~sy_writer /\ sy_readers = 0 /\ ~sy_poisoned
          => /\ sy_out'[t] = "Some"
             /\ Len(sy_frames'[t]) = Len(sy_frames[t]) + 1]_vars

\* C15 as amended: try_with_mut called on a SyncShare that nobody holds and
\* that is not poisoned, and try_with called on one that moreover no writer
\* waits for, run f once (one closure call starts, holding the lock) and
\* return Some; the value f of try_with_mut leaves is what every reader
\* reads, the return of the call does not change it, and when the call was
\* the only holder the lock is free, and not poisoned, after it returns.
C15_TrySucceedsWhenFree ==
    /\ [](\A t \in Threads :
            HoldsRead(t) /\ sy_seen[t] # <<>> => sy_seen[t] = sy_val)
    /\ [][\A t \in Threads :
            /\ Sync_try_with_mut(t) /\ WriteAvail /\ ~sy_poisoned
               => /\ sy_out'[t] = "Some"
                  /\ sy_frames'[t] = Append(sy_frames[t], "w")
                  /\ sy_writer' /\ sy_val' = sy_val
            /\ Sync_try_with(t) /\ WriteAvail /\ ~sy_poisoned /\ ~WriterWaiting
               => /\ sy_out'[t] = "Some"
                  /\ sy_frames'[t] = Append(sy_frames[t], "r")
                  /\ sy_readers' = 1 /\ sy_val' = sy_val
            /\ Sync_return(t) /\ TotalRead + TotalWrite = 1
               => /\ ~sy_writer' /\ sy_readers' = 0
                  /\ sy_poisoned' = sy_poisoned
                  /\ sy_val' = sy_val]_vars

\* try_with_mut found the lock free and runs f, as the only holder, while
\* another thread waits for the lock
C15_Witness ==
    \E t, u \in Threads :
        /\ t # u
        /\ sy_out[t] = "Some" /\ sy_frames[t] = <<"w">>
        /\ sy_wait[u] # "none"
\* C16: ScopeShare clone independence.  A clone() that succeeds makes one
\* new cell, which holds a copy of the current value and has no outstanding
\* access; it leaves the value and the borrow state of the original, and
\* every other cell, as they were.  Afterwards a with_mut on one cell (its
\* call, the writes of its closure, its return) changes the value of no
\* other cell.
C16_CloneIndependence ==
    [][/\ \A c \in Cells :
            Scope_clone(c) /\ CanBorrow(sc_flag[c])
            => \E d \in Cells :
                  /\ ~sc_alive[d] /\ sc_alive' = [sc_alive EXCEPT ![d] = TRUE]
                  /\ sc_val' = [sc_val EXCEPT ![d] = sc_val[c]]
                  /\ sc_flag'[d] = 0 /\ (SharedAcc(d) + ExclAcc(d))' = 0
                  /\ \A e \in Cells \ {d} : sc_flag'[e] = sc_flag[e]
                  /\ UNCHANGED <<sc_frames, sc_refs, sc_muts>>
       /\ \A c \in Cells :
            \/ Scope_with_mut(c)
            \/ \E v \in Vals : Scope_f_write(c, v)
            \/ Scope_return /\ Top(sc_frames) = [op |-> "with_mut", cell |-> c]
            => \A d \in Cells \ {c} : sc_val'[d] = sc_val[d]]_vars

\* the original and its clone hold different values, the clone's written by
\* a with_mut that still runs while the original is borrowed
C16_Witness ==
    /\ sc_alive[2]
    /\ sc_val[1] # sc_val[2]
    /\ ScopeFrames(2, "with_mut") = 1
    /\ sc_refs[1] >= 1
\* C18: a reentrant write on SyncShare never succeeds.  A thread that calls
\* with_mut or borrow_mut while it holds read access to the same cell (it is
\* inside a with or try_with closure, or holds a borrow() guard) is left
\* waiting; as long as it waits holding that access it gets no write access
\* and the value is not changed, and its wait ends, if ever, by the call
\* failing with a panic: the inner closure is never run.
C18_ReentrantWriteNeverSucceeds ==
    [][\A t \in Threads :
          /\ HoldsRead(t) /\ (Sync_with_mut(t) \/ Sync_borrow_mut(t))
             => /\ sy_wait'[t] \in {"with_mut", "borrow_mut"}
                /\ sy_frames'[t] = sy_frames[t] /\ sy_wg'[t] = sy_wg[t]
                /\ sy_val' = sy_val
          /\ HoldsRead(t) /\ sy_wait[t] \in {"with_mut", "borrow_mut"}
             => /\ (WriteCount(t))' = 0
                /\ sy_val' = sy_val
                /\ \/ sy_wait'[t] = sy_wait[t] /\ (ReadCount(t))' = ReadCount(t)
                   \/ /\ sy_wait'[t] = "none" /\ sy_out'[t] = "deadlock"
                      /\ Len(sy_frames'[t]) <= Len(sy_frames[t])]_vars

\* a thread waits in with_mut, called from inside its own with closure
C18_Witness ==
    \E t \in Threads :
        /\ sy_frames[t] = <<"r">> /\ sy_rg[t] = 0
        /\ sy_wait[t] = "with_mut"
        /\ sy_readers = 1
\* C19: try_with and try_with_mut on a poisoned SyncShare return None, also
\* when nobody holds the lock: f is not run, nothing panics, and the lock,
\* the value and the poison flag stay as they are.  As the flag is never
\* cleared this is so forever after the poisoning, while a blocking accessor
\* that gets past the lock panics.
C19_TryOnPoisoned ==
    [][/\ sy_poisoned => sy_poisoned'
       /\ \A t \in Threads :
             /\ sy_poisoned /\ (Sync_try_with(t) \/ Sync_try_with_mut(t))
                => /\ sy_out'[t] = "None"
                   /\ UNCHANGED <<sy_frames, sy_rg, sy_wg, sy_wait>>
                   /\ UNCHANGED <<sy_readers, sy_writer, sy_val>>
             /\ /\ sy_poisoned
                /\ \/ Sync_with(t) \/ Sync_with_mut(t)
                   \/ Sync_borrow(t) \/ Sync_borrow_mut(t)
                => \/ sy_wait'[t] # "none"
                   \/ sy_out'[t] = "PoisonError"]_vars

\* the last call of every thread, so also of the one whose panic poisoned
\* the lock, was a try call that returned None; nobody holds or awaits the lock
C19_Witness ==
    /\ sy_poisoned
    /\ ~sy_writer /\ sy_readers = 0
    /\ \A t \in Threads : sy_wait[t] = "none" /\ sy_out[t] = "None"
\* what a ScopeShare call, failed or not, may have touched besides sc_panic
ScopeCellState == <<sc_alive, sc_val, sc_flag, sc_frames, sc_refs, sc_muts>>

\* a failed call leaves the value and the outstanding accesses as they were:
\* a ScopeShare call that panics on the borrow, a SyncShare try call that
\* returns None
FailedAccessChangesNothing ==
    /\ \A c \in Cells :
          /\ \/ Scope_with(c) \/ Scope_with_mut(c)
             \/ Scope_borrow(c) \/ Scope_borrow_mut(c)
          /\ sc_panic' # "none"
          => UNCHANGED ScopeCellState
    /\ \A t \in Threads :
          /\ Sync_try_with(t) \/ Sync_try_with_mut(t)
          /\ sy_out'[t] = "None"
          => UNCHANGED <<sy_val, sy_readers, sy_writer, sy_poisoned,
                         sy_frames, sy_rg, sy_wg, sy_wait>>

\* a ScopeShare call made when no conflicting access is outstanding succeeds
ScopeCallSucceedsWhenFree ==
    \A c \in Cells :
        /\ (Scope_with_mut(c) \/ Scope_borrow_mut(c))
              /\ SharedAcc(c) + ExclAcc(c) = 0
           => sc_panic' = "none" /\ (ExclAcc(c))' = 1
        /\ (Scope_with(c) \/ Scope_borrow(c)) /\ ExclAcc(c) = 0
           => sc_panic' = "none" /\ (SharedAcc(c))' = SharedAcc(c) + 1

\* a try call made now by thread t can return None
TryWithCanFail(t)    == ENABLED (Sync_try_with(t) /\ sy_out'[t] = "None")
TryWithMutCanFail(t) == ENABLED (Sync_try_with_mut(t) /\ sy_out'[t] = "None")

\* C20 as claimed: a failed access changes nothing, and the same call made
\* again once no conflicting guard is left succeeds (for SyncShare: a thread
\* whose try call has returned None cannot get None again when it repeats
\* the call while nobody holds the lock).
C20_FailedAccessThenRetry ==
    /\ [][FailedAccessChangesNothing /\ ScopeCallSucceedsWhenFree]_vars
    /\ [](\A t \in Threads :
            sy_out[t] = "None" /\ ~sy_writer /\ sy_readers = 0
            => ~TryWithCanFail(t) /\ ~TryWithMutCanFail(t))

\* C20 as amended: a failed access changes nothing: f is not run and the
\* value and the outstanding accesses are as before the call.  On a
\* ScopeShare the same call succeeds once no conflicting access is left.  On
\* a SyncShare the repeated try call succeeds once nobody holds the lock,
\* provided the lock is not poisoned (the holder did not drop its write guard
\* in a panic) and, for try_with, no writer is waiting for the lock.
C20_FailedAccessThenRetryUnpoisoned ==
    /\ [][/\ FailedAccessChangesNothing
          /\ ScopeCallSucceedsWhenFree
          /\ \A t \in Threads :
                /\ /\ sy_out[t] = "None" /\ Sync_try_with_mut(t)
                   /\ ~sy_writer /\ sy_readers = 0 /\ ~sy_poisoned
                   => sy_out'[t] = "Some" /\ (WriteCount(t))' = 1
                /\ /\ sy_out[t] = "None" /\ Sync_try_with(t)
                   /\ ~sy_writer /\ sy_readers = 0 /\ ~sy_poisoned
                   /\ ~WriterWaiting
                   => sy_out'[t] = "Some" /\ (ReadCount(t))' = 1]_vars
    /\ [](\A t \in Threads :
            sy_out[t] = "None" /\ ~sy_writer /\ sy_readers = 0 /\ ~sy_poisoned
            => /\ ~TryWithMutCanFail(t)
               /\ ~WriterWaiting => ~TryWithCanFail(t))

\* a try call has returned None, changing nothing, because the closure of
\* another thread's try_with_mut holds the lock
C20_Witness ==
    \E t \in Threads :
        /\ sy_out[t] = "Some" /\ sy_frames[t] = <<"w">>
        /\ ~sy_poisoned
        /\ \A u \in Threads \ {t} : sy_out[u] = "None"
====
